---- MODULE Spec2Model ----
(***************************************************************************)
(* Model of src/app.py: the Streamlit page that uploads a PDF invoice,     *)
(* renders one page, crops a rectangle out of it, runs OCR on the crop and *)
(* exports the chosen coordinates as JSON.                                 *)
(*                                                                         *)
(* Three specifications share the module:                                  *)
(*   SpecNorm   the crop path as a function of any four integers: the      *)
(*              guard of main (line 158) followed by crop_image (lines     *)
(*              44-59);                                                    *)
(*   SpecInputs the same crop path on the values the four number_inputs of *)
(*              lines 149-154 can hold;                                    *)
(*   Spec      one script run of main after another, statement by          *)
(*             statement: the temporary file, the widgets drawn, the page  *)
(*             section behind "if page_image:" and the exceptions that     *)
(*             leave main (lines 86-272).                                  *)
(***************************************************************************)
EXTENDS Integers, Sequences, FiniteSets, TLC

VARIABLES
    \* SpecNorm
    rect,           \* the four raw coordinates given to the crop path
    image,          \* the image's size, [w, h]
    out,            \* result of the first pass
    out2,           \* result of a second pass over the first result
    \* Spec
    pc,             \* position of the running script in main
    uploaded_file,  \* st.sidebar.file_uploader's value
    tmp_exists,     \* the file named pdf_path exists on disk
    leaked,         \* temporary files of earlier runs still on disk
    total_pages,    \* len(doc)
    page_num,       \* the selectbox's value (0-based)
    dpi,            \* the slider's value
    page_image,     \* pdf_to_image's result
    pending,        \* exception travelling through the finally block
    raised,         \* exception that left main ("none" when it returned)
    shown,          \* st.error / st.info / st.warning messages of this run
    widgets,        \* the input widgets this run has drawn
    \* the page section of main
    x1, y1, x2, y2, \* the four number_input values
    label,          \* the text_input "Nome da distribuidora"
    clicked,        \* the widget that triggered this run
    preset_coords,  \* st.session_state.preset_coords, <<>> when absent
    cropped,        \* what crop_image returned in this run
    ocr,            \* outcome of the OCR step in this run
    config_dict,    \* the dict built at lines 224-234
    download,       \* the document handed to st.download_button
    code_shown      \* the document handed to st.code

normVars == <<rect, image, out, out2>>
mainVars == <<pc, uploaded_file, tmp_exists, leaked, pending>>
runVars  == <<total_pages, page_num, dpi, page_image, raised, shown,
              widgets>>
pageVars == <<x1, y1, x2, y2, label, clicked, preset_coords, cropped, ocr,
              config_dict, download, code_shown>>
vars == <<normVars, mainVars, runVars, pageVars>>

None == "None"

\* A message put on the page: st.error, st.info, st.warning, st.success or
\* an image caption, with the numbers formatted into it.
Msg(kind, text) == <<kind, text, <<>>>>
MsgWith(kind, text, numbers) == <<kind, text, numbers>>

(***************************************************************************)
(* Bounds of the model.                                                    *)
(***************************************************************************)
\* Largest image width and height drawn exhaustively.
MaxDim == 3
\* How far outside 0..MaxDim the raw coordinates of SpecNorm reach.
Slack == 2
\* Largest number of pages of an uploaded PDF.
MaxPages == 3
\* Temporary files that failing runs may leave on disk.
MaxLeaked == 1

Max(a, b) == IF a >= b THEN a ELSE b
Min(a, b) == IF a <= b THEN a ELSE b

(***************************************************************************)
(* crop_image and the guard in front of it.                                *)
(***************************************************************************)
\* max(0, min(v, limit)), the expression of lines 49-52.
clamp_upper_only(v, limit) == Min(v, limit)
clamp(v, limit) == Max(0, Min(v, limit))

\* image.crop(box) and the except clause around it.  The crop has the box's
\* extent, an inverted side counting as 0, and any image is truthy.  What an
\* inverted box does is the image library's affair: a strict one raises
\* ValueError, which the except turns into st.error and None; a lenient one
\* returns the empty image.
Crop(box, strict) ==
    IF strict /\ (box[3] < box[1] \/ box[4] < box[2])
    THEN [status |-> "None", box |-> box, size |-> <<>>]
    ELSE [status |-> "image", box |-> box,
          size |-> <<Max(0, box[3] - box[1]), Max(0, box[4] - box[2])>>]

crop_image_swapped_axes(img, cx1, cy1, cx2, cy2, strict) ==
    Crop(<<clamp(cx1, img.w), clamp(cy1, img.w),
           clamp(cx2, img.h), clamp(cy2, img.h)>>, strict)

crop_image_inclusive(img, cx1, cy1, cx2, cy2, strict) ==
    Crop(<<clamp(cx1, img.w), clamp(cy1, img.h),
           clamp(cx2 - 1, img.w), clamp(cy2 - 1, img.h)>>, strict)

crop_image(img, cx1, cy1, cx2, cy2, strict) ==
    Crop(<<clamp(cx1, img.w), clamp(cy1, img.h),
           clamp(cx2, img.w), clamp(cy2, img.h)>>, strict)

\* "if x2 > x1 and y2 > y1" (line 158), on the coordinates as entered.
guard_non_strict(gx1, gy1, gx2, gy2) == gx2 >= gx1 /\ gy2 >= gy1
guard(gx1, gy1, gx2, gy2) == gx2 > gx1 /\ gy2 > gy1

Rejected == [status |-> "rejected", box |-> <<>>, size |-> <<>>]
Pending  == [status |-> "pending", box |-> <<>>, size |-> <<>>]

\* The crop path of main: the guard, then crop_image; the else branch shows
\* "Coordenadas invalidas" and crops nothing.
normalize(r, img, strict) ==
    IF guard(r[1], r[2], r[3], r[4])
    THEN crop_image(img, r[1], r[2], r[3], r[4], strict)
    ELSE Rejected

(***************************************************************************)
(* Values the variables of the other specifications rest at.               *)
(***************************************************************************)
NormIdle ==
    /\ rect = <<0, 0, 0, 0>>
    /\ image = [w |-> 1, h |-> 1]
    /\ out = Pending
    /\ out2 = Pending

MainIdle ==
    /\ pc = "idle"
    /\ uploaded_file = [present |-> FALSE, pdf |-> FALSE, pages |-> 0]
    /\ tmp_exists = FALSE
    /\ leaked = 0
    /\ pending = "none"

RunIdle ==
    /\ total_pages = 0
    /\ page_num = 0
    /\ dpi = 200
    /\ page_image = None
    /\ raised = "none"
    /\ shown = {}
    /\ widgets = {}

NotCropped == [status |-> "not called", box |-> <<>>, size |-> <<>>]

PageIdle ==
    /\ x1 = 0 /\ y1 = 0 /\ x2 = 0 /\ y2 = 0
    /\ label = ""
    /\ clicked = "idle"
    /\ preset_coords = <<>>
    /\ cropped = NotCropped
    /\ ocr = "not run"
    /\ config_dict = <<>>
    /\ download = <<>>
    /\ code_shown = <<>>

(***************************************************************************)
(* SpecNorm and SpecInputs: the crop path applied to drawn inputs.         *)
(***************************************************************************)
Coords == (0 - Slack)..(MaxDim + Slack)
Dims == 1..MaxDim

\* The rectangles and image sizes the specification's examples name, and the
\* same page with both x beyond its width.
Examples ==
    { [r |-> <<10, 10, 10, 10>>,      img |-> [w |-> 100, h |-> 100]],
      [r |-> <<0 - 5, 0 - 5, 9999, 9999>>, img |-> [w |-> 800, h |-> 600]],
      [r |-> <<700, 0, 750, 600>>,    img |-> [w |-> 800, h |-> 600]],
      [r |-> <<750, 0, 700, 600>>,    img |-> [w |-> 800, h |-> 600]],
      [r |-> <<900, 0, 950, 600>>,    img |-> [w |-> 800, h |-> 600]] }

\* The crop path as a function: any four integers on any image, whether the
\* number_inputs can hold them or not.
NormInit ==
    /\ \/ /\ rect \in Coords \X Coords \X Coords \X Coords
          /\ image \in [w : Dims, h : Dims]
       \/ \E e \in Examples : rect = e.r /\ image = e.img
    /\ out = Pending
    /\ out2 = Pending
    /\ MainIdle /\ RunIdle /\ PageIdle

\* What the four number_inputs can hold on an image: min_value=0 and
\* max_value=width or height (lines 149-154).
WithinInputs(r, img) ==
    /\ 0 <= r[1] /\ r[1] <= img.w
    /\ 0 <= r[2] /\ r[2] <= img.h
    /\ 0 <= r[3] /\ r[3] <= img.w
    /\ 0 <= r[4] /\ r[4] <= img.h

\* The crop path as main runs it: the guard of line 158 receives the values
\* of the four number_inputs, on every image size up to MaxDim and on the
\* examples that lie in their image.
InputsInit ==
    /\ \/ /\ image \in [w : Dims, h : Dims]
          /\ rect \in (0..image.w) \X (0..image.h)
                       \X (0..image.w) \X (0..image.h)
       \/ \E e \in {x \in Examples : WithinInputs(x.r, x.img)} :
             rect = e.r /\ image = e.img
    /\ out = Pending
    /\ out2 = Pending
    /\ MainIdle /\ RunIdle /\ PageIdle

\* First pass: the rectangle as entered.
Normalize ==
    /\ out = Pending
    /\ \E strict \in BOOLEAN : out' = normalize(rect, image, strict)
    /\ UNCHANGED <<rect, image, out2, mainVars, runVars, pageVars>>

\* Second pass: the first result fed back in; there is nothing to feed back
\* when the first pass cropped nothing.
NormalizeAgain ==
    /\ out # Pending
    /\ out2 = Pending
    /\ \E strict \in BOOLEAN :
          out2' = IF out.status = "image"
                  THEN normalize(out.box, image, strict)
                  ELSE out
    /\ UNCHANGED <<rect, image, out, mainVars, runVars, pageVars>>

NormNext == Normalize \/ NormalizeAgain

SpecNorm == NormInit /\ [][NormNext]_vars

SpecInputs == InputsInit /\ [][NormNext]_vars

\* The clamped coordinates written out, one at a time.
Clamped(v, limit) == IF v < 0 THEN 0 ELSE IF v > limit THEN limit ELSE v
ClampedBox ==
    <<Clamped(rect[1], image.w), Clamped(rect[2], image.h),
      Clamped(rect[3], image.w), Clamped(rect[4], image.h)>>
DegenerateAfterClamp ==
    ClampedBox[3] <= ClampedBox[1] \/ ClampedBox[4] <= ClampedBox[2]

\* C1: whatever integers are entered, the box handed to image.crop lies in
\* the image and is ordered, 0 <= x1' <= x2' <= width and
\* 0 <= y1' <= y2' <= height, or nothing is cropped.
C1_BoxWithinImage ==
    out.status = "image" =>
        /\ 0 <= out.box[1] /\ out.box[1] <= out.box[3] /\ out.box[3] <= image.w
        /\ 0 <= out.box[2] /\ out.box[2] <= out.box[4] /\ out.box[4] <= image.h

\* A crop was made of a rectangle that sticks out of the image on all sides.
C1_Witness ==
    /\ out.status = "image"
    /\ rect[1] < 0 /\ rect[2] < 0 /\ rect[3] > image.w /\ rect[4] > image.h

C3_ClampedIndependently ==
    out.status = "image" => out.box = ClampedBox

\* (-5, -5, 9999, 9999) on 800 x 600 came out as (0, 0, 800, 600).
C3_Witness ==
    /\ rect = <<0 - 5, 0 - 5, 9999, 9999>>
    /\ image = [w |-> 800, h |-> 600]
    /\ out.status = "image"
    /\ out.box = <<0, 0, 800, 600>>

ModuleGlobals ==
    {"st", "fitz", "cv2", "np", "Image", "tempfile", "os", "PaddleOCR", "pd",
     "init_ocr", "pdf_to_image", "crop_image", "extract_text_from_image",
     "main"}

\* What the user can have in the uploader: nothing, bytes that are no PDF,
\* or a PDF of 1..MaxPages pages.
NoFile == [present |-> FALSE, pdf |-> FALSE, pages |-> 0]
Uploads ==
    {NoFile} \cup {[present |-> TRUE, pdf |-> FALSE, pages |-> 0]}
             \cup {[present |-> TRUE, pdf |-> TRUE, pages |-> n] : n \in 1..MaxPages}

\* st.sidebar.slider("DPI da imagem", 100, 300, 200, 10)
DpiMin == 100
DpiMax == 300
DpiDefault == 200
DpiStep == 10
\* Of the slider's positions the model draws both ends and the default.
DpiValues ==
    {d \in {DpiMin, DpiDefault, DpiMax} : (d - DpiMin) % DpiStep = 0}

\* The input widgets of main, by their labels.
Uploader == "Carregue seu arquivo PDF"
SidebarWidgets == {"Selecione a pagina", "DPI da imagem"}
CoordinateInputs == {"X1 (esquerda)", "Y1 (topo)", "X2 (direita)", "Y2 (fundo)"}
CropButton == "Aplicar Recorte"
LabelInput == "Nome da distribuidora"
ExportButton == "Exportar JSON"
DownloadButton == "Download configuracao"
TextArea == "Texto completo extraido"

\* pdf_to_image: everything happens inside one try; fitz.open raises on
\* bytes that are no PDF, and line 36 reads the global name io.  Any
\* exception becomes st.error and the result None.
pdf_to_image(file, page, d) ==
    IF ~file.pdf
    THEN [img |-> None, error |-> "FileDataError"]
    ELSE IF "io" \notin ModuleGlobals
    THEN [img |-> None, error |-> "NameError"]
    ELSE [img |-> "image", error |-> "none"]

(***************************************************************************)
(* The page section, lines 130-246, behind "if page_image:".               *)
(***************************************************************************)
\* Lines 201-213: the three preset buttons, in the order they are drawn, and
\* what each stores.
PresetNames == {"CEMIG", "ENEL", "COPEL"}
PresetOrder == <<"CEMIG", "ENEL", "COPEL">>
Presets ==
    [CEMIG |-> <<100, 400, 500, 800>>,
     ENEL  |-> <<80, 350, 520, 750>>,
     COPEL |-> <<90, 380, 510, 780>>]

\* The button that is True in a run; at most one is.
Clicks == {"none", "crop", "export"} \cup PresetNames

\* What init_ocr and extract_text_from_image can do: init_ocr (line 167,
\* outside any try) raises; the engine raises inside extract_text_from_image
\* and its except returns ([], []); it finds no line; it finds lines.
OcrOutcomes == {"init failed", "error", "no text", "text"}

Labels == {"", "CEMIG"}
\* Sizes of a rendered page: the smallest there is, and an A4 page at the
\* default 200 dpi, on which every preset fits.
SmallPage == [w |-> 1, h |-> 1]
InvoicePage == [w |-> 1654, h |-> 2339]
PageSizes == {SmallPage, InvoicePage}

\* Lines 224-234: config_dict, a Python dict as the sequence of its items
\* <<key, type, value>> in insertion order.
build_config_dict(lbl, page, cx1, cy1, cx2, cy2, d) ==
    << <<"distribuidora", "str", lbl>>,
       <<"pagina", "int", page>>,
       <<"coordenadas", "dict",
            << <<"x1", "int", cx1>>, <<"y1", "int", cy1>>,
               <<"x2", "int", cx2>>, <<"y2", "int", cy2>> >> >>,
       <<"dpi", "int", d>> >>

\* json.dumps(config_dict, indent=2, ensure_ascii=False): a JSON object whose
\* members keep the dict's order; an int becomes a number, a str a string,
\* a dict an object.
RECURSIVE json_dumps(_)
json_dumps(d) ==
    [i \in 1..Len(d) |->
        IF d[i][2] = "dict" THEN <<d[i][1], "object", json_dumps(d[i][3])>>
        ELSE IF d[i][2] = "int" THEN <<d[i][1], "number", d[i][3]>>
        ELSE <<d[i][1], "string", d[i][3]>>]

\* The members of a JSON object or the keys of a dict, and the member of a
\* name.
Keys(doc) == {doc[i][1] : i \in 1..Len(doc)}
Member(doc, k) == doc[CHOOSE i \in 1..Len(doc) : doc[i][1] = k]

\* Lines 133-139: the page, its caption "Pagina {page_num + 1}", its size.
PageHeader(img) ==
    {MsgWith("caption", "Pagina", <<page_num + 1>>),
     MsgWith("info", "Dimensoes", <<img.w, img.h>>)}

\* The defaults of the four number_inputs and the values a user can put into
\* the i-th, each bound to 0..width or 0..height (lines 149-154): every value
\* on the small page; on the invoice page the default and the value the
\* CEMIG preset has there.
Defaults(img) == <<0, 0, img.w \div 2, img.h \div 2>>
InputValues(img, i) ==
    LET limit == IF i \in {1, 3} THEN img.w ELSE img.h IN
    IF img = InvoicePage
    THEN {v \in {Defaults(img)[i], Presets.CEMIG[i]} : 0 <= v /\ v <= limit}
    ELSE 0..limit

\* One run of lines 130-246 on the page image of size img: lbl is the
\* text_input's value, click the button that is True in this run, c the four
\* number_input values, engine what the OCR engine does if it is reached,
\* strict the image library's kind.
PageRun(img, lbl, click, c, engine, strict) ==
    LET valid   == guard(c[1], c[2], c[3], c[4])
        applied == click = "crop" /\ valid
        crop    == IF applied
                   THEN crop_image(img, c[1], c[2], c[3], c[4], strict)
                   ELSE NotCropped
        \* "if cropped_image:" - a PIL image is truthy, None is not
        ocred   == applied /\ crop.status = "image"
        \* init_ocr raising ends the run at line 167
        stopped == ocred /\ engine = "init failed"
        \* a preset button stores its tuple and st.rerun() ends the run at
        \* line 203, 208 or 213
        rerun   == click \in PresetNames
        cropMsgs ==
            IF click # "crop" THEN {}
            ELSE IF ~valid THEN {Msg("error", "Coordenadas invalidas")}
            ELSE IF ~ocred THEN {Msg("error", "Erro ao recortar imagem")}
            ELSE {MsgWith("caption", "Recorte", c)} \cup
                 (CASE engine = "init failed" -> {}
                    [] engine = "error" ->
                         {Msg("error", "Erro na extracao de texto"),
                          Msg("warning", "Nenhum texto foi extraido")}
                    [] engine = "no text" ->
                         {Msg("warning", "Nenhum texto foi extraido")}
                    [] OTHER -> {Msg("dataframe", "Texto Extraido")})
        \* lines 216-219
        presetMsgs ==
            IF ~stopped /\ ~rerun /\ preset_coords # <<>>
            THEN {MsgWith("info", "Preset aplicado", preset_coords)}
            ELSE {}
        \* the preset buttons drawn before the run ends or goes on
        presetButtons ==
            IF stopped THEN {}
            ELSE IF rerun
            THEN {PresetOrder[i] : i \in {j \in 1..3 :
                      \E k \in j..3 : PresetOrder[k] = click}}
            ELSE PresetNames
        dict == IF stopped \/ rerun THEN <<>>
                ELSE build_config_dict(lbl, page_num,
                                       c[1], c[2], c[3], c[4], dpi)
        \* "import json" runs only under the export button (line 237), so
        \* line 246 finds the local name json bound only in that run
        exported == ~stopped /\ click = "export"
    IN  [cropped       |-> crop,
         ocr           |-> IF ocred THEN engine ELSE "not run",
         shown         |-> PageHeader(img) \cup cropMsgs \cup presetMsgs,
         widgets       |-> CoordinateInputs \cup {CropButton}
                           \cup (IF ocred /\ engine = "text"
                                 THEN {TextArea} ELSE {})
                           \cup presetButtons
                           \cup (IF stopped \/ rerun THEN {}
                                 ELSE {LabelInput, ExportButton})
                           \cup (IF exported THEN {DownloadButton} ELSE {}),
         preset_coords |-> IF rerun THEN Presets[click]
                           ELSE IF stopped THEN preset_coords
                           ELSE <<>>,
         config_dict   |-> dict,
         download      |-> IF exported THEN json_dumps(dict) ELSE <<>>,
         code_shown    |-> IF exported THEN json_dumps(dict) ELSE <<>>,
         raised        |-> IF stopped THEN "Exception (init_ocr)"
                           ELSE IF rerun THEN "RerunException"
                           ELSE IF exported THEN "none"
                           ELSE "UnboundLocalError (json)"]

(***************************************************************************)
(* The steps of a run.                                                     *)
(***************************************************************************)
\* Lines 86-98: the uploader is drawn and has its value.
Init ==
    /\ pc = "start"
    /\ uploaded_file \in Uploads
    /\ tmp_exists = FALSE
    /\ leaked = 0
    /\ pending = "none"
    /\ total_pages = 0
    /\ page_num = 0
    /\ dpi = DpiDefault
    /\ page_image = None
    /\ raised = "none"
    /\ shown = {}
    /\ widgets = {Uploader}
    /\ NormIdle /\ PageIdle

\* Lines 253-272: nothing uploaded, the instructions are shown.
NoUpload ==
    /\ pc = "start"
    /\ ~uploaded_file.present
    /\ shown' = shown \cup {Msg("info", "Carregue um arquivo PDF")}
    /\ pc' = "exit"
    /\ UNCHANGED <<uploaded_file, tmp_exists, leaked, pending,
                   total_pages, page_num, dpi, page_image, raised, widgets,
                   normVars, pageVars>>

\* Line 102: NamedTemporaryFile(delete=False) creates the file.
CreateTmp ==
    /\ pc = "start"
    /\ uploaded_file.present
    /\ tmp_exists' = TRUE
    /\ pc' = "write"
    /\ UNCHANGED <<uploaded_file, leaked, pending, runVars,
                   normVars, pageVars>>

\* Lines 103-104, still outside the try: the write succeeds, or it raises
\* (a full disk) and the exception leaves main with the file in place.
WriteTmp ==
    /\ pc = "write"
    /\ \E ok \in BOOLEAN :
          /\ ~ok => leaked < MaxLeaked
          /\ IF ok
             THEN /\ pc' = "open"
                  /\ UNCHANGED raised
             ELSE /\ pc' = "exit"
                  /\ raised' = "OSError (write)"
    /\ UNCHANGED <<uploaded_file, tmp_exists, leaked, pending,
                   total_pages, page_num, dpi, page_image, shown, widgets,
                   normVars, pageVars>>

\* Lines 106-112: fitz.open inside try/finally, with no except clause.
OpenPdf ==
    /\ pc = "open"
    /\ IF uploaded_file.pdf
       THEN /\ total_pages' = uploaded_file.pages
            /\ shown' = shown \cup {Msg("success", "PDF carregado com sucesso")}
            /\ pc' = "select"
            /\ UNCHANGED pending
       ELSE /\ pending' = "FileDataError"
            /\ pc' = "finally"
            /\ UNCHANGED <<total_pages, shown>>
    /\ UNCHANGED <<uploaded_file, tmp_exists, leaked,
                   page_num, dpi, page_image, raised, widgets,
                   normVars, pageVars>>

\* Lines 115-122: the page selectbox over range(total_pages), the DPI slider.
SelectWidgets ==
    /\ pc = "select"
    /\ page_num' \in 0..(total_pages - 1)
    /\ dpi' \in DpiValues
    /\ widgets' = widgets \cup SidebarWidgets
    /\ pc' = "render"
    /\ UNCHANGED <<uploaded_file, tmp_exists, leaked, pending,
                   total_pages, page_image, raised, shown,
                   normVars, pageVars>>

\* Lines 125-246: pdf_to_image, then "if page_image:" and the page section
\* behind it, whose widgets take what the user has put into them; a falsy
\* result skips the section.  An exception of the section travels to the
\* finally block.
RenderPage ==
    /\ pc = "render"
    /\ LET r == pdf_to_image(uploaded_file, page_num, dpi) IN
          /\ page_image' = r.img
          /\ IF r.img # None
             THEN \E img \in PageSizes, lbl \in Labels, click \in Clicks,
                     engine \in OcrOutcomes, strict \in BOOLEAN :
                    \E c \in InputValues(img, 1) \X InputValues(img, 2)
                               \X InputValues(img, 3) \X InputValues(img, 4) :
                       LET p == PageRun(img, lbl, click, c, engine, strict) IN
                          /\ image' = img
                          /\ label' = lbl
                          /\ clicked' = click
                          /\ x1' = c[1] /\ y1' = c[2]
                          /\ x2' = c[3] /\ y2' = c[4]
                          /\ cropped' = p.cropped
                          /\ ocr' = p.ocr
                          /\ preset_coords' = p.preset_coords
                          /\ config_dict' = p.config_dict
                          /\ download' = p.download
                          /\ code_shown' = p.code_shown
                          /\ shown' = shown \cup p.shown
                          /\ widgets' = widgets \cup p.widgets
                          /\ pending' = p.raised
             ELSE /\ shown' = shown \cup
                        {Msg("error", "Erro ao converter PDF para imagem")}
                  /\ UNCHANGED <<image, pageVars, widgets, pending>>
    /\ pc' = "finally"
    /\ UNCHANGED <<rect, out, out2, uploaded_file, tmp_exists, leaked,
                   total_pages, page_num, dpi, raised>>

\* Lines 248-251: the finally block; os.unlink succeeds or raises, and an
\* exception raised here replaces the one in flight.
Finally ==
    /\ pc = "finally"
    /\ \E ok \in BOOLEAN :
          /\ ~ok => leaked < MaxLeaked
          /\ IF ok
             THEN /\ tmp_exists' = FALSE
                  /\ raised' = pending
             ELSE /\ raised' = "OSError (unlink)"
                  /\ UNCHANGED tmp_exists
    /\ pending' = "none"
    /\ pc' = "exit"
    /\ UNCHANGED <<uploaded_file, leaked,
                   total_pages, page_num, dpi, page_image, shown, widgets,
                   normVars, pageVars>>

\* The next interaction runs the script again from the top: the uploader is
\* drawn and has its value; the session keeps preset_coords and what the
\* widgets hold.  A file left behind by the run that ended stays on disk
\* under its own name.
Rerun ==
    /\ pc = "exit"
    /\ leaked' = leaked + (IF tmp_exists THEN 1 ELSE 0)
    /\ tmp_exists' = FALSE
    /\ uploaded_file' \in Uploads
    /\ pending' = "none"
    /\ pc' = "start"
    /\ total_pages' = 0 /\ page_num' = 0 /\ dpi' = DpiDefault
    /\ page_image' = None /\ raised' = "none" /\ shown' = {}
    /\ widgets' = {Uploader}
    /\ clicked' = "idle"
    /\ cropped' = NotCropped
    /\ ocr' = "not run"
    /\ config_dict' = <<>>
    /\ download' = <<>>
    /\ code_shown' = <<>>
    /\ UNCHANGED <<normVars, x1, y1, x2, y2, label, preset_coords>>

Next ==
    \/ NoUpload
    \/ CreateTmp
    \/ WriteTmp
    \/ OpenPdf
    \/ SelectWidgets
    \/ RenderPage
    \/ Finally
    \/ Rerun

Spec == Init /\ [][Next]_vars

\* As the file stands, no run of main gets past line 129: pdf_to_image
\* returns None on every upload, because io is no module-level name.
PageSectionUnreached ==
    /\ page_image = None
    /\ widgets \subseteq {Uploader} \cup SidebarWidgets

\* C7: when a run that created the temporary file has ended, however it
\* ended, the file is gone.
C7_TmpFileDeleted ==
    pc = "exit" => ~tmp_exists

\* C8: no failure of a run of main leaves main as an exception: not one of
\* opening the PDF, not one of deleting the temporary file.
C8_NothingPropagates ==
    raised \notin {"FileDataError", "OSError (unlink)"}

\* A run of main has opened the uploaded PDF and returned.
PdfLoaded ==
    /\ pc = "exit"
    /\ raised = "none"
    /\ Msg("success", "PDF carregado com sucesso") \in shown

\* The fields the document is said to have; the code has no key for the
\* source file or for either size, so those three names stand for any.
ClaimedFields ==
    {"distribuidora", "arquivo", "pagina", "coordenadas", "dpi",
     "dimensoes_originais", "dimensoes_recorte"}

\* C5: a loaded PDF has the export action, and the document the action
\* produces has exactly the seven fields label, source file name, page,
\* coordinates, dpi, original size, cropped size.
C5_SevenFields ==
    PdfLoaded =>
        /\ ExportButton \in widgets
        /\ download # <<>> => Keys(download) = ClaimedFields

\* C6: for the page selected of a loaded PDF, the page written into the
\* document to export (config_dict) is the number the selector shows, the
\* 0-based index + 1.
C6_PageOneIndexed ==
    PdfLoaded =>
        /\ config_dict # <<>>
        /\ Member(config_dict, "pagina")[3] = page_num + 1

\* C9: a loaded PDF has the four coordinates; while x2 <= x1 or y2 <= y1
\* nothing is cropped, nothing is exported or offered for download and an
\* error message says so; with the coordinates in order the crop and the
\* export are there to use.
C9_InvalidWithheld ==
    PdfLoaded =>
        /\ CoordinateInputs \subseteq widgets
        /\ IF guard(x1, y1, x2, y2)
           THEN {CropButton, ExportButton} \subseteq widgets
           ELSE /\ cropped.status # "image"
                /\ download = <<>>
                /\ Msg("error", "Coordenadas invalidas") \in shown

\* C10: a loaded PDF has the three preset buttons, and in the run that
\* announces a preset, on a page the preset fits on, the coordinates of the
\* configuration are the preset's four values and the session entry is gone.
C10_PresetApplied ==
    PdfLoaded =>
        /\ PresetNames \subseteq widgets
        /\ \A m \in shown :
              (/\ m[1] = "info" /\ m[2] = "Preset aplicado"
               /\ m[3][3] <= image.w /\ m[3][4] <= image.h) =>
                  /\ config_dict # <<>>
                  /\ LET c == Member(config_dict, "coordenadas")[3] IN
                        <<c[1][3], c[2][3], c[3][3], c[4][3]>> = m[3]
                  /\ preset_coords = <<>>

====
